---- MODULE Spec2Model ----
(***************************************************************************)
(* The cart / coupon / checkout pipeline of src/main.py over a shared      *)
(* document store.  Every handler is split at its store operations: one    *)
(* action is one store operation together with the Python code that runs   *)
(* before the next one, so that concurrent requests interleave exactly     *)
(* where the code allows it.                                               *)
(*                                                                         *)
(* Amounts are whole currency units.  Catalog prices are multiples of 10   *)
(* and percent values are multiples of 10, so subtotal * value / 100 is an *)
(* exact integer and the float arithmetic of the code is exact here.       *)
(***************************************************************************)
EXTENDS Integers, Sequences, FiniteSets, TLC

VARIABLES
    products,       \* db["product"]: product id -> product document
    carts,          \* db["cart"]: the cart documents, in insertion order
    coupons,        \* db["coupon"]: code -> coupon document
    orders,         \* db["order"]: the order documents, in insertion order
    notifications,  \* db["notification"]
    clock,          \* the last reading of the wall clock, in seconds
    req,            \* the in-flight request of each worker
    resp            \* the response returned by the last step, if it returned one

vars == <<products, carts, coupons, orders, notifications, clock, req, resp>>

----------------------------------------------------------------------------
(* Bounds *)

MaxQty == 2       \* quantities a client sends are 1..MaxQty
MaxOrders == 2    \* orders created in one run, where a run has several
MaxTime == 1      \* seconds on the clock: 0..MaxTime

----------------------------------------------------------------------------
(* Values *)

NULL == "null"          \* Python None / JSON null, where a string is expected

Reqs == {"r1", "r2"}
Users == {"u1", "u2"}

\* product ids a client can send: two catalog products, a well-formed id
\* that is not in the catalog, and a string that is no ObjectId
ProductIds == {"p1", "p2", "p9", "zz"}
WellFormedIds == {"p1", "p2", "p9"}
Quantities == 1..MaxQty

\* db["product"] at start (documents shaped by schemas.Product)
Catalog ==
    [p \in {"p1", "p2"} |->
        IF p = "p1"
        THEN [found |-> TRUE, title |-> "t1", price |-> 100, image_url |-> "i1"]
        ELSE [found |-> TRUE, title |-> "t2", price |-> 50, image_url |-> NULL]]

\* what find_one returns when no product matches
NoProduct == [found |-> FALSE, title |-> NULL, price |-> 0, image_url |-> NULL]

\* coupon codes a client can send
CouponCodes == {"SAVE10", "FLAT300", "BIGCAP", "NULLCAP", "NOPE"}

\* a coupon's max_discount: a number, null (the key holds None, which is what
\* schemas.Coupon defaults to), or no key at all
Num(n) == [kind |-> "number", value |-> n]
Null == [kind |-> "null", value |-> 0]
Absent == [kind |-> "absent", value |-> 0]

\* db["coupon"] at start (documents shaped by schemas.Coupon)
InitCoupons ==
    [c \in {"SAVE10", "FLAT300", "BIGCAP", "NULLCAP"} |->
        CASE c = "SAVE10"  -> [found |-> TRUE, code |-> c, discount_type |-> "percent",
                               value |-> 10, max_discount |-> Num(20), active |-> TRUE]
          [] c = "FLAT300" -> [found |-> TRUE, code |-> c, discount_type |-> "flat",
                               value |-> 300, max_discount |-> Absent, active |-> TRUE]
          [] c = "BIGCAP"  -> [found |-> TRUE, code |-> c, discount_type |-> "flat",
                               value |-> 300, max_discount |-> Num(400), active |-> TRUE]
          [] c = "NULLCAP" -> [found |-> TRUE, code |-> c, discount_type |-> "percent",
                               value |-> 10, max_discount |-> Null, active |-> TRUE]]

\* what find_one returns when no coupon matches
NoCoupon ==
    [found |-> FALSE, code |-> NULL, discount_type |-> NULL, value |-> 0,
     max_discount |-> Absent, active |-> FALSE]

\* strings whose case matters are sequences of characters
Str_cod == <<"c", "o", "d">>
Str_COD == <<"C", "O", "D">>
Str_online == <<"o", "n", "l", "i", "n", "e">>
Str_ONLINE == <<"O", "N", "L", "I", "N", "E">>
Str_razorpay == <<"r", "a", "z", "o", "r", "p", "a", "y">>
PaymentMethods == {Str_cod, Str_COD, Str_online, Str_razorpay}

LowerChars ==
    <<"a", "b", "c", "d", "e", "f", "g", "h", "i", "j", "k", "l", "m",
      "n", "o", "p", "q", "r", "s", "t", "u", "v", "w", "x", "y", "z">>
UpperChars ==
    <<"A", "B", "C", "D", "E", "F", "G", "H", "I", "J", "K", "L", "M",
      "N", "O", "P", "Q", "R", "S", "T", "U", "V", "W", "X", "Y", "Z">>

\* str.upper()
UpperChar(ch) ==
    IF \E i \in DOMAIN LowerChars : LowerChars[i] = ch
    THEN UpperChars[CHOOSE i \in DOMAIN LowerChars : LowerChars[i] = ch]
    ELSE ch
Upper(s) == [i \in DOMAIN s |-> UpperChar(s[i])]

Min(a, b) == IF a <= b THEN a ELSE b
Max(a, b) == IF a >= b THEN a ELSE b

\* round(x, 2): the amounts of this model are whole units
Round2(x) == x

----------------------------------------------------------------------------
(* The document store *)

\* find_one({"user_id": u}) on db["cart"]: the position of the first match,
\* 0 when there is none
FindCart(u) ==
    IF \E i \in DOMAIN carts : carts[i].user_id = u
    THEN CHOOSE i \in DOMAIN carts :
            carts[i].user_id = u /\ \A j \in 1..(i - 1) : carts[j].user_id # u
    ELSE 0

\* update_one({"user_id": u}, {"$set": {"items": items}}) without upsert:
\* the first matching document is patched, nothing happens when there is none
SetCartItems(u, items) ==
    IF FindCart(u) = 0 THEN carts
    ELSE [carts EXCEPT ![FindCart(u)].items = items]

\* update_one({"user_id": u}, {"$set": {"coupon_code": code}}) without upsert
SetCartCoupon(u, code) ==
    IF FindCart(u) = 0 THEN carts
    ELSE [carts EXCEPT ![FindCart(u)].coupon_code = code]

\* database.create_document(collection, doc): insert_one, the new document
\* goes last; no unique index rejects it
create_document(collection, doc) == Append(collection, doc)

\* Cart(user_id=u), as create_document stores it: the schema's defaults
NewCart(u) == [user_id |-> u, items |-> <<>>, coupon_code |-> NULL]

\* the document an upsert inserts for {"user_id": u} with $set items
\* (coupon_code is missing, which cart.get("coupon_code") reads as None)
UpsertedCart(u, items) == [user_id |-> u, items |-> items, coupon_code |-> NULL]

\* find_one({"_id": ObjectId(pid)}) on db["product"]
FindProduct(pid) == IF pid \in DOMAIN products THEN products[pid] ELSE NoProduct

\* mutant of FindActiveCoupon: the filter forgets "active": True
FindCouponAnyState(code) == IF code \in DOMAIN coupons THEN coupons[code] ELSE NoCoupon

\* find_one({"code": code, "active": True}) on db["coupon"]
FindActiveCoupon(code) ==
    IF code \in DOMAIN coupons /\ coupons[code].active THEN coupons[code] ELSE NoCoupon

\* find_one({"tracking_code": code}) on db["order"]: the position of the
\* first match, 0 when there is none
FindOrderByTracking(code) ==
    IF \E i \in DOMAIN orders : orders[i].tracking_code = code
    THEN CHOOSE i \in DOMAIN orders :
            orders[i].tracking_code = code
            /\ \A j \in 1..(i - 1) : orders[j].tracking_code # code
    ELSE 0

----------------------------------------------------------------------------
(* Requests and responses *)

NoPayment == [method |-> NULL, provider |-> NULL, status |-> NULL]

Idle ==
    [op |-> "none", pc |-> "idle", user |-> NULL, product |-> NULL, quantity |-> 0,
     prod |-> NoProduct, code |-> NULL, method |-> <<>>, items |-> <<>>,
     coupon_code |-> NULL, cpn |-> NoCoupon, subtotal |-> 0, discount |-> 0,
     final_amount |-> 0, payment |-> NoPayment, oid |-> 0]

NoResp ==
    [op |-> "none", user |-> NULL, status |-> 0, detail |-> NULL, product |-> NULL,
     quantity |-> 0, code |-> NULL, read |-> <<>>, before |-> <<>>, order_id |-> 0,
     tracking_code |-> <<>>, payment |-> NoPayment]

Response(op, user, status, detail) ==
    [NoResp EXCEPT !.op = op, !.user = user, !.status = status, !.detail = detail]

Init ==
    /\ products = Catalog
    /\ carts = <<>>
    /\ coupons = InitCoupons
    /\ orders = <<>>
    /\ notifications = <<>>
    /\ clock = 0
    /\ req = [r \in Reqs |-> Idle]
    /\ resp = NoResp

----------------------------------------------------------------------------
(* Cart Manager: get_cart *)

\* get_cart, lines 89-90: look the cart up; return it when it exists,
\* otherwise go on to insert one
GetCartFind(r, u) ==
    /\ req[r].pc = "idle"
    /\ IF FindCart(u) # 0
       THEN /\ resp' = Response("get_cart", u, 200, "ok")
            /\ UNCHANGED req
       ELSE /\ req' = [req EXCEPT ![r] = [Idle EXCEPT !.op = "get_cart",
                                                      !.pc = "gc_insert", !.user = u]]
            /\ resp' = NoResp
    /\ UNCHANGED <<products, carts, coupons, orders, notifications, clock>>

\* get_cart, lines 91-95: insert a fresh cart, read it back, return it
GetCartInsert(r) ==
    /\ req[r].pc = "gc_insert"
    /\ carts' = create_document(carts, NewCart(req[r].user))
    /\ req' = [req EXCEPT ![r] = Idle]
    /\ resp' = Response("get_cart", req[r].user, 200, "ok")
    /\ UNCHANGED <<products, coupons, orders, notifications, clock>>

----------------------------------------------------------------------------
(* Cart Manager: add_to_cart *)

\* mutant of UpsertItem: the quantity is added to the one stored
UpsertItemAdding(items, pid, qty, prod) ==
    IF \E i \in DOMAIN items : items[i].product_id = pid
    THEN LET k == CHOOSE i \in DOMAIN items :
                    items[i].product_id = pid
                    /\ \A j \in 1..(i - 1) : items[j].product_id # pid
         IN  [items EXCEPT ![k].quantity = @ + qty]
    ELSE Append(items, [product_id |-> pid, title |-> prod.title, price |-> prod.price,
                        quantity |-> qty, image_url |-> prod.image_url])

\* mutant of UpsertItem: setting the quantity also refreshes the price and
\* the title from the product just read
UpsertItemRefreshing(items, pid, qty, prod) ==
    IF \E i \in DOMAIN items : items[i].product_id = pid
    THEN LET k == CHOOSE i \in DOMAIN items :
                    items[i].product_id = pid
                    /\ \A j \in 1..(i - 1) : items[j].product_id # pid
         IN  [items EXCEPT ![k].quantity = qty, ![k].price = prod.price,
                           ![k].title = prod.title]
    ELSE Append(items, [product_id |-> pid, title |-> prod.title, price |-> prod.price,
                        quantity |-> qty, image_url |-> prod.image_url])

\* add_to_cart, lines 110-123: set the quantity of the first item with this
\* product_id, or append a snapshot of the product
UpsertItem(items, pid, qty, prod) ==
    IF \E i \in DOMAIN items : items[i].product_id = pid
    THEN LET k == CHOOSE i \in DOMAIN items :
                    items[i].product_id = pid
                    /\ \A j \in 1..(i - 1) : items[j].product_id # pid
         IN  [items EXCEPT ![k].quantity = qty]
    ELSE Append(items, [product_id |-> pid, title |-> prod.title, price |-> prod.price,
                        quantity |-> qty, image_url |-> prod.image_url])

\* add_to_cart, lines 103-105: ObjectId(product_id) rejects a malformed id
\* (the exception surfaces as a 500), an unknown product is a 404, a known
\* product is kept for the rest of the call
AddFindProduct(r, u, p, q) ==
    /\ req[r].pc = "idle"
    /\ IF p \notin WellFormedIds
       THEN /\ resp' = Response("add_to_cart", u, 500, "InvalidId")
            /\ UNCHANGED req
       ELSE IF ~FindProduct(p).found
       THEN /\ resp' = Response("add_to_cart", u, 404, "Product not found")
            /\ UNCHANGED req
       ELSE /\ req' = [req EXCEPT ![r] = [Idle EXCEPT !.op = "add_to_cart",
                                                      !.pc = "add_find_cart",
                                                      !.user = u, !.product = p,
                                                      !.quantity = q,
                                                      !.prod = FindProduct(p)]]
            /\ resp' = NoResp
    /\ UNCHANGED <<products, carts, coupons, orders, notifications, clock>>

\* add_to_cart, lines 106-109: read the cart's items ([] when there is no cart)
AddFindCart(r) ==
    /\ req[r].pc = "add_find_cart"
    /\ req' = [req EXCEPT ![r].pc = "add_write",
                          ![r].items = IF FindCart(req[r].user) = 0 THEN <<>>
                                       ELSE carts[FindCart(req[r].user)].items]
    /\ resp' = NoResp
    /\ UNCHANGED <<products, carts, coupons, orders, notifications, clock>>

\* mutant of AddWrite: the item is upserted into the items the store holds
\* at the moment of the write (an atomic read-modify-write)
AddWriteAtomic(r) ==
    LET u == req[r].user
        stored == IF FindCart(u) = 0 THEN <<>> ELSE carts[FindCart(u)].items
        items == UpsertItem(stored, req[r].product, req[r].quantity, req[r].prod)
    IN  /\ req[r].pc = "add_write"
        /\ carts' = IF FindCart(u) = 0 THEN Append(carts, UpsertedCart(u, items))
                    ELSE SetCartItems(u, items)
        /\ req' = [req EXCEPT ![r] = Idle]
        /\ resp' = [Response("add_to_cart", u, 200, "ok") EXCEPT
                        !.product = req[r].product, !.quantity = req[r].quantity,
                        !.read = req[r].items, !.before = stored]
        /\ UNCHANGED <<products, coupons, orders, notifications, clock>>

\* add_to_cart, lines 110-125: change the items read and write the whole list
\* back with an upsert.  The response of the model also records the items
\* the store held just before the write (before) next to the items the call
\* had read (read).
AddWrite(r) ==
    LET u == req[r].user
        items == UpsertItem(req[r].items, req[r].product, req[r].quantity, req[r].prod)
    IN  /\ req[r].pc = "add_write"
        /\ carts' = IF FindCart(u) = 0 THEN Append(carts, UpsertedCart(u, items))
                    ELSE SetCartItems(u, items)
        /\ req' = [req EXCEPT ![r] = Idle]
        /\ resp' = [Response("add_to_cart", u, 200, "ok") EXCEPT
                        !.product = req[r].product, !.quantity = req[r].quantity,
                        !.read = req[r].items,
                        !.before = IF FindCart(u) = 0 THEN <<>>
                                   ELSE carts[FindCart(u)].items]
        /\ UNCHANGED <<products, coupons, orders, notifications, clock>>

----------------------------------------------------------------------------
(* Cart Manager: remove_from_cart *)

\* mutant of RemoveItem: the item found and everything after it is dropped
RemoveItemAndRest(items, pid) ==
    IF \E i \in DOMAIN items : items[i].product_id = pid
    THEN SubSeq(items, 1, (CHOOSE i \in DOMAIN items :
                                items[i].product_id = pid
                                /\ \A j \in 1..(i - 1) : items[j].product_id # pid) - 1)
    ELSE items

\* remove_from_cart, line 132: drop every item with this product_id
RemoveItem(items, pid) == SelectSeq(items, LAMBDA it : it.product_id # pid)

\* remove_from_cart, lines 129-132: without a cart there is nothing to do,
\* otherwise read the cart's items
RemoveFindCart(r, u, p) ==
    /\ req[r].pc = "idle"
    /\ IF FindCart(u) = 0
       THEN /\ resp' = Response("remove_from_cart", u, 200, "ok")
            /\ UNCHANGED req
       ELSE /\ req' = [req EXCEPT ![r] = [Idle EXCEPT !.op = "remove_from_cart",
                                                      !.pc = "rm_write", !.user = u,
                                                      !.product = p,
                                                      !.items = carts[FindCart(u)].items]]
            /\ resp' = NoResp
    /\ UNCHANGED <<products, carts, coupons, orders, notifications, clock>>

\* remove_from_cart, lines 132-134: write the filtered list back (no upsert)
RemoveWrite(r) ==
    /\ req[r].pc = "rm_write"
    /\ carts' = SetCartItems(req[r].user, RemoveItem(req[r].items, req[r].product))
    /\ req' = [req EXCEPT ![r] = Idle]
    /\ resp' = [Response("remove_from_cart", req[r].user, 200, "ok") EXCEPT
                    !.product = req[r].product, !.read = req[r].items,
                    !.before = IF FindCart(req[r].user) = 0 THEN <<>>
                               ELSE carts[FindCart(req[r].user)].items]
    /\ UNCHANGED <<products, coupons, orders, notifications, clock>>

----------------------------------------------------------------------------
(* Cart Manager: apply_coupon *)

\* apply_coupon, lines 141-143: look the code up among the active coupons
ApplyFindCoupon(r, u, c) ==
    /\ req[r].pc = "idle"
    /\ IF ~FindActiveCoupon(c).found
       THEN /\ resp' = [Response("apply_coupon", u, 404, "Invalid coupon") EXCEPT
                            !.code = c]
            /\ UNCHANGED req
       ELSE /\ req' = [req EXCEPT ![r] = [Idle EXCEPT !.op = "apply_coupon",
                                                      !.pc = "ac_write", !.user = u,
                                                      !.code = c]]
            /\ resp' = NoResp
    /\ UNCHANGED <<products, carts, coupons, orders, notifications, clock>>

\* apply_coupon, lines 144-145: store the code on the cart (no upsert)
ApplyWrite(r) ==
    /\ req[r].pc = "ac_write"
    /\ carts' = SetCartCoupon(req[r].user, req[r].code)
    /\ req' = [req EXCEPT ![r] = Idle]
    /\ resp' = [Response("apply_coupon", req[r].user, 200, "ok") EXCEPT !.code = req[r].code]
    /\ UNCHANGED <<products, coupons, orders, notifications, clock>>

----------------------------------------------------------------------------
(* Checkout Pipeline *)

\* mutant of CartIsEmpty: only the missing cart is rejected
CartIsMissing(u) == FindCart(u) = 0

\* checkout, line 156: "not cart or not cart.get('items')"
CartIsEmpty(u) == IF FindCart(u) = 0 THEN TRUE ELSE carts[FindCart(u)].items = <<>>

\* checkout, line 159: sum of price * quantity over the items read
RECURSIVE Subtotal(_)
Subtotal(items) ==
    IF items = <<>> THEN 0
    ELSE items[1].price * items[1].quantity + Subtotal(Tail(items))

\* checkout, lines 161-163: line 161 skips the lookup when the cart has no
\* coupon_code, line 162 looks the code up among the active coupons
CouponAtCheckout(code) == IF code = NULL THEN NoCoupon ELSE FindActiveCoupon(code)

\* checkout, lines 165/167: float(cpn.get("max_discount", subtotal)) raises
\* TypeError when the key holds None
CapRaises(cpn) == cpn.found /\ cpn.max_discount.kind = "null"

\* checkout, lines 165/167: cpn.get("max_discount", subtotal) for a number or
\* a missing key
CouponCap(cpn, subtotal) ==
    IF cpn.max_discount.kind = "absent" THEN subtotal ELSE cpn.max_discount.value

\* checkout, lines 160-167: the discount for the coupon found (cpn.found is
\* false when the cart has no coupon_code or no active coupon matches)
Discount(subtotal, cpn) ==
    IF ~cpn.found THEN 0
    ELSE IF cpn.discount_type = "percent"
         THEN Min((subtotal * cpn.value) \div 100, CouponCap(cpn, subtotal))
         ELSE Min(cpn.value, CouponCap(cpn, subtotal))

\* mutant of FinalAmount: the difference is not floored at 0
FinalAmountUnfloored(subtotal, discount) == subtotal - discount

\* checkout, line 168
FinalAmount(subtotal, discount) == Max(0, subtotal - discount)

\* checkout, lines 170-174
PaymentBlock(method) ==
    [method   |-> IF Upper(method) = Str_COD THEN "COD" ELSE "ONLINE",
     provider |-> IF Upper(method) = Str_COD THEN NULL ELSE "razorpay",
     status   |-> IF Upper(method) = Str_ONLINE THEN "pending" ELSE "paid"]

HexDigits ==
    <<"0", "1", "2", "3", "4", "5", "6", "7", "8", "9", "a", "b", "c", "d", "e", "f">>

RECURSIVE Pow16(_)
Pow16(n) == IF n = 0 THEN 1 ELSE 16 * Pow16(n - 1)

\* str(ObjectId())[:8]: the first 8 hex digits of an ObjectId are its 4-byte
\* big-endian creation time in seconds (t stays below 2^31 here)
ObjectIdPrefix(t) == [i \in 1..8 |-> HexDigits[((t \div Pow16(8 - i)) % 16) + 1]]

\* checkout, line 186
TrackingCode(t) == Upper(ObjectIdPrefix(t))

\* mutant of ClearCart: the coupon_code is left on the cart
ClearCartItemsOnly(u) ==
    IF FindCart(u) = 0 THEN carts
    ELSE [carts EXCEPT ![FindCart(u)].items = <<>>]

\* checkout, line 189: update_one({"user_id": u}, {"$set": {"items": [],
\* "coupon_code": None}}) without upsert
ClearCart(u) ==
    IF FindCart(u) = 0 THEN carts
    ELSE [carts EXCEPT ![FindCart(u)].items = <<>>, ![FindCart(u)].coupon_code = NULL]

\* checkouts that have passed validation and not yet inserted their order
PendingOrders == Cardinality({r \in Reqs : req[r].pc \in {"co_price", "co_order"}})

\* checkout, lines 155-157: read the cart; 400 when there is none or it has
\* no items.  k caps the orders of a run.
CheckoutFindCart(r, u, m, k) ==
    /\ req[r].pc = "idle"
    /\ IF CartIsEmpty(u)
       THEN /\ resp' = Response("checkout", u, 400, "Cart is empty")
            /\ UNCHANGED req
       ELSE /\ Len(orders) + PendingOrders < k
            /\ req' = [req EXCEPT ![r] =
                        [Idle EXCEPT !.op = "checkout", !.pc = "co_price", !.user = u,
                                     !.method = m,
                                     !.items = carts[FindCart(u)].items,
                                     !.coupon_code = carts[FindCart(u)].coupon_code]]
            /\ resp' = NoResp
    /\ UNCHANGED <<products, carts, coupons, orders, notifications, clock>>

\* mutant of CheckoutPrice: the cart is cleared while the checkout is priced,
\* before its order is persisted
CheckoutPriceThenClear(r) ==
    LET cpn == CouponAtCheckout(req[r].coupon_code)
        subtotal == Subtotal(req[r].items)
        discount == Discount(subtotal, cpn)
    IN  /\ req[r].pc = "co_price"
        /\ ~CapRaises(cpn)
        /\ req' = [req EXCEPT ![r].pc = "co_order",
                              ![r].cpn = cpn,
                              ![r].subtotal = subtotal,
                              ![r].discount = discount,
                              ![r].final_amount = FinalAmount(subtotal, discount),
                              ![r].payment = PaymentBlock(req[r].method)]
        /\ carts' = ClearCart(req[r].user)
        /\ resp' = NoResp
        /\ UNCHANGED <<products, coupons, orders, notifications, clock>>

\* checkout, lines 159-174: subtotal, coupon lookup, discount, final amount,
\* payment block; float(None) ends the request with a 500
CheckoutPrice(r) ==
    LET cpn == CouponAtCheckout(req[r].coupon_code)
        subtotal == Subtotal(req[r].items)
        discount == Discount(subtotal, cpn)
    IN  /\ req[r].pc = "co_price"
        /\ IF CapRaises(cpn)
           THEN /\ req' = [req EXCEPT ![r] = Idle]
                /\ resp' = [Response("checkout", req[r].user, 500, "TypeError") EXCEPT
                                !.code = req[r].coupon_code, !.read = req[r].items]
           ELSE /\ req' = [req EXCEPT ![r].pc = "co_order",
                                      ![r].cpn = cpn,
                                      ![r].subtotal = subtotal,
                                      ![r].discount = discount,
                                      ![r].final_amount = FinalAmount(subtotal, discount),
                                      ![r].payment = PaymentBlock(req[r].method)]
                /\ resp' = NoResp
        /\ UNCHANGED <<products, carts, coupons, orders, notifications, clock>>

\* mutant of CheckoutCreateOrder: the order is inserted and the cart cleared
\* in one atomic step
CheckoutCreateOrderAndClear(r, t) ==
    /\ req[r].pc = "co_order"
    /\ t >= clock
    /\ clock' = t
    /\ orders' = create_document(orders,
            [user_id |-> req[r].user,
             items |-> req[r].items,
             total_amount |-> Round2(req[r].subtotal),
             discount_amount |-> Round2(req[r].discount),
             final_amount |-> Round2(req[r].final_amount),
             payment |-> req[r].payment,
             status |-> "placed",
             tracking_code |-> TrackingCode(t)])
    /\ carts' = ClearCart(req[r].user)
    /\ req' = [req EXCEPT ![r].pc = "co_clear", ![r].oid = Len(orders) + 1]
    /\ resp' = NoResp
    /\ UNCHANGED <<products, coupons, notifications>>

\* checkout, lines 176-188: build the order document at clock reading t and
\* insert it; the order id is the order's position in the collection
CheckoutCreateOrder(r, t) ==
    /\ req[r].pc = "co_order"
    /\ t >= clock
    /\ clock' = t
    /\ orders' = create_document(orders,
            [user_id |-> req[r].user,
             items |-> req[r].items,
             total_amount |-> Round2(req[r].subtotal),
             discount_amount |-> Round2(req[r].discount),
             final_amount |-> Round2(req[r].final_amount),
             payment |-> req[r].payment,
             status |-> "placed",
             tracking_code |-> TrackingCode(t)])
    /\ req' = [req EXCEPT ![r].pc = "co_clear", ![r].oid = Len(orders) + 1]
    /\ resp' = NoResp
    /\ UNCHANGED <<products, carts, coupons, notifications>>

\* mutant of CheckoutClearCart: the order shares its items list with the cart,
\* so clearing the cart empties the order's items too
CheckoutClearCartAndOrder(r) ==
    /\ req[r].pc = "co_clear"
    /\ carts' = ClearCart(req[r].user)
    /\ orders' = [orders EXCEPT ![req[r].oid].items = <<>>]
    /\ req' = [req EXCEPT ![r].pc = "co_notify"]
    /\ resp' = NoResp
    /\ UNCHANGED <<products, coupons, notifications, clock>>

\* checkout, line 189: clear the cart
CheckoutClearCart(r) ==
    /\ req[r].pc = "co_clear"
    /\ carts' = ClearCart(req[r].user)
    /\ req' = [req EXCEPT ![r].pc = "co_notify"]
    /\ resp' = NoResp
    /\ UNCHANGED <<products, coupons, orders, notifications, clock>>

\* checkout, lines 192-200: insert the notification (its message names the
\* order id) and return.  ok is the outcome of the insert: when the store
\* raises, no handler catches the exception in checkout and the request ends
\* with a 500.
CheckoutNotify(r, ok) ==
    /\ req[r].pc = "co_notify"
    /\ req' = [req EXCEPT ![r] = Idle]
    /\ IF ok
       THEN /\ notifications' = create_document(notifications,
                    [user_id |-> req[r].user, title |-> "Order Placed",
                     order_id |-> req[r].oid, type |-> "order", read |-> FALSE])
            /\ resp' = [Response("checkout", req[r].user, 200, "ok") EXCEPT
                            !.order_id = req[r].oid,
                            !.tracking_code = orders[req[r].oid].tracking_code,
                            !.payment = req[r].payment]
       ELSE /\ notifications' = notifications
            /\ resp' = Response("checkout", req[r].user, 500, "StoreError")
    /\ UNCHANGED <<products, carts, coupons, orders, clock>>

\* the pcs of a checkout between two of its store operations
CheckoutPcs == {"co_price", "co_order", "co_clear", "co_notify"}

\* checkout, lines 155-200: the process serving the call stops between two
\* store operations; nothing is rolled back and no response is sent
CheckoutStops(r) ==
    /\ req[r].pc \in CheckoutPcs
    /\ req' = [req EXCEPT ![r] = Idle]
    /\ resp' = NoResp
    /\ UNCHANGED <<products, carts, coupons, orders, notifications, clock>>

----------------------------------------------------------------------------
(* Order Tracker *)

\* track_order, lines 211-215: the order returned for a tracking code (0: 404)
track_order(code) == FindOrderByTracking(code)

----------------------------------------------------------------------------
(* Environment *)

\* the coupon's active flag (schemas.Coupon.active) is switched off in the
\* store by an operator
DeactivateCoupon(c) ==
    /\ c \in DOMAIN coupons
    /\ coupons[c].active
    /\ coupons' = [coupons EXCEPT ![c].active = FALSE]
    /\ resp' = NoResp
    /\ UNCHANGED <<products, carts, orders, notifications, clock, req>>

\* the price of a catalog product (schemas.Product.price, >= 0) is changed in
\* the store by an operator
ChangePrice(p, v) ==
    /\ p \in DOMAIN products
    /\ v >= 0
    /\ products[p].price # v
    /\ products' = [products EXCEPT ![p].price = v]
    /\ resp' = NoResp
    /\ UNCHANGED <<carts, coupons, orders, notifications, clock, req>>

----------------------------------------------------------------------------
(* Specifications *)

\* One step of a worker in R serving a request drawn from the inputs In:
\* users In.U, product ids In.P, quantities In.Q, coupon codes In.C, payment
\* methods In.M, clock readings In.T, outcomes In.F of the notification
\* insert, at most In.K orders in a run; or the deactivation of a coupon in
\* In.D.
Step(R, In) ==
    \/ \E r \in R, u \in In.U : GetCartFind(r, u)
    \/ \E r \in R : GetCartInsert(r)
    \/ \E r \in R, u \in In.U, p \in In.P, q \in In.Q : AddFindProduct(r, u, p, q)
    \/ \E r \in R : AddFindCart(r)
    \/ \E r \in R : AddWrite(r)
    \/ \E r \in R, u \in In.U, p \in In.P : RemoveFindCart(r, u, p)
    \/ \E r \in R : RemoveWrite(r)
    \/ \E r \in R, u \in In.U, c \in In.C : ApplyFindCoupon(r, u, c)
    \/ \E r \in R : ApplyWrite(r)
    \/ \E r \in R, u \in In.U, m \in In.M : CheckoutFindCart(r, u, m, In.K)
    \/ \E r \in R : CheckoutPrice(r)
    \/ \E r \in R, t \in In.T : CheckoutCreateOrder(r, t)
    \/ \E r \in R : CheckoutClearCart(r)
    \/ \E r \in R, ok \in In.F : CheckoutNotify(r, ok)
    \/ \E c \in In.D : DeactivateCoupon(c)

\* Concurrent requests of one user on two products; one checkout of a
\* non-empty cart in a run.
RaceInputs ==
    [U |-> {"u1"}, P |-> {"p1", "p2"}, Q |-> {1}, C |-> {"SAVE10"}, D |-> {"SAVE10"},
     M |-> {Str_cod}, T |-> {0}, F |-> {TRUE}, K |-> 1]
Next == Step(Reqs, RaceInputs)
Spec == Init /\ [][Next]_vars

\* Requests of one user, served one at a time, with every product id and
\* every quantity; one checkout of a non-empty cart in a run.
CartInputs ==
    [U |-> {"u1"}, P |-> ProductIds, Q |-> Quantities, C |-> {"SAVE10", "NOPE"},
     D |-> {"SAVE10"}, M |-> {Str_cod}, T |-> {0}, F |-> {TRUE}, K |-> 1]
NextCart == Step({"r1"}, CartInputs)
SpecCart == Init /\ [][NextCart]_vars

\* Requests of one user, served one at a time, with every coupon and every
\* payment method; one checkout of a non-empty cart in a run.
PriceInputs ==
    [U |-> {"u1"}, P |-> {"p1", "p2"}, Q |-> Quantities, C |-> CouponCodes,
     D |-> {"SAVE10"}, M |-> PaymentMethods, T |-> {0}, F |-> {TRUE}, K |-> 1]
NextPrice == Step({"r1"}, PriceInputs)
SpecPrice == Init /\ [][NextPrice]_vars

\* Requests of one user, served one at a time, with every coupon and one
\* payment method; one checkout of a non-empty cart in a run.
AmountInputs ==
    [U |-> {"u1"}, P |-> {"p1", "p2"}, Q |-> Quantities, C |-> CouponCodes,
     D |-> {"SAVE10"}, M |-> {Str_cod}, T |-> {0}, F |-> {TRUE}, K |-> 1]
NextAmount == Step({"r1"}, AmountInputs)
SpecAmount == Init /\ [][NextAmount]_vars

\* Requests of two users, served one at a time, up to MaxOrders orders at
\* clock readings 0..MaxTime.
OrderInputs ==
    [U |-> Users, P |-> {"p1"}, Q |-> {1}, C |-> {"SAVE10"}, D |-> {"SAVE10"},
     M |-> {Str_cod, Str_razorpay}, T |-> 0..MaxTime, F |-> {TRUE}, K |-> MaxOrders]
NextOrder == Step({"r1"}, OrderInputs)
SpecOrder == Init /\ [][NextOrder]_vars

\* Concurrent requests of one user on one product, up to MaxOrders orders in
\* a run; the notification insert may fail and a checkout may stop between
\* two of its store operations.
PipelineInputs ==
    [U |-> {"u1"}, P |-> {"p1"}, Q |-> {1}, C |-> {"SAVE10"}, D |-> {"SAVE10"},
     M |-> {Str_cod}, T |-> {0}, F |-> BOOLEAN, K |-> MaxOrders]
NextPipeline ==
    \/ Step(Reqs, PipelineInputs)
    \/ \E r \in Reqs : CheckoutStops(r)
SpecPipeline == Init /\ [][NextPipeline]_vars

\* Requests of one user on one product, served one at a time, up to
\* MaxOrders orders in a run; a checkout may stop between the insert of its
\* order and the clearing of the cart, and the notification insert succeeds.
StopInputs == [PipelineInputs EXCEPT !.F = {TRUE}]
NextStop ==
    \/ Step({"r1"}, StopInputs)
    \/ (req["r1"].pc = "co_clear" /\ CheckoutStops("r1"))
SpecStop == Init /\ [][NextStop]_vars

\* Requests of two users on two products, served one at a time; one
\* checkout of a non-empty cart in a run.
FrameInputs ==
    [U |-> Users, P |-> {"p1", "p2"}, Q |-> {1}, C |-> {"SAVE10"}, D |-> {"SAVE10"},
     M |-> {Str_cod}, T |-> {0}, F |-> {TRUE}, K |-> 1]
NextFrame == Step({"r1"}, FrameInputs)
SpecFrame == Init /\ [][NextFrame]_vars

\* Requests of two users on one product, served one at a time, up to
\* MaxOrders orders in a run, all at the same clock reading.
FrozenInputs ==
    [U |-> Users, P |-> {"p1"}, Q |-> {1}, C |-> {"SAVE10"}, D |-> {"SAVE10"},
     M |-> {Str_cod}, T |-> {0}, F |-> {TRUE}, K |-> MaxOrders]
NextFrozen == Step({"r1"}, FrozenInputs)
SpecFrozen == Init /\ [][NextFrozen]_vars

\* Requests of one user on one product, served one at a time, with the
\* quantities a client can send (CartUpdate.quantity is an unconstrained
\* int); one checkout of a non-empty cart in a run.
ClientQuantities == {-1, 0, 1}
QtyInputs ==
    [U |-> {"u1"}, P |-> {"p1"}, Q |-> ClientQuantities, C |-> {"SAVE10"},
     D |-> {"SAVE10"}, M |-> {Str_cod}, T |-> {0}, F |-> {TRUE}, K |-> 1]
NextQty == Step({"r1"}, QtyInputs)
SpecQty == Init /\ [][NextQty]_vars

\* Requests of one user, served one at a time, while the catalog price of p1
\* changes between 100 and 120; one checkout of a non-empty cart in a run.
SnapInputs ==
    [U |-> {"u1"}, P |-> {"p1", "p2"}, Q |-> {1, 2}, C |-> {"SAVE10"},
     D |-> {"SAVE10"}, M |-> {Str_cod}, T |-> {0}, F |-> {TRUE}, K |-> 1]
NextSnap ==
    \/ Step({"r1"}, SnapInputs)
    \/ \E v \in {100, 120} : ChangePrice("p1", v)
SpecSnap == Init /\ [][NextSnap]_vars

----------------------------------------------------------------------------
(* Vocabulary of the properties: the cart of a user in a cart collection cs,
   read off the documents directly *)

CartDocs(cs, u) == {i \in DOMAIN cs : cs[i].user_id = u}
HasCart(cs, u) == CartDocs(cs, u) # {}
TheCart(cs, u) == cs[CHOOSE i \in CartDocs(cs, u) : \A j \in CartDocs(cs, u) : i <= j]
ItemsOf(cs, u) == IF HasCart(cs, u) THEN TheCart(cs, u).items ELSE <<>>
CodeOf(cs, u) == IF HasCart(cs, u) THEN TheCart(cs, u).coupon_code ELSE NULL
Cleared(cs, u) == HasCart(cs, u) /\ ItemsOf(cs, u) = <<>> /\ CodeOf(cs, u) = NULL

\* worker r has priced its checkout
Priced(r) == req[r].pc \in {"co_order", "co_clear", "co_notify"}

----------------------------------------------------------------------------
(* C1 *)

IsCOD(m) ==
    /\ Len(m) = 3
    /\ m[1] \in {"c", "C"} /\ m[2] \in {"o", "O"} /\ m[3] \in {"d", "D"}

ExpectedPayment(m) ==
    IF IsCOD(m) THEN [method |-> "COD", provider |-> NULL, status |-> "paid"]
    ELSE [method |-> "ONLINE", provider |-> "razorpay", status |-> "pending"]

\* C1: the payment block of a checkout is COD/null/paid when payment_method
\* equals "COD" case-insensitively and ONLINE/razorpay/pending for every
\* other value.
C1_PaymentBlock == \A r \in Reqs : Priced(r) => req[r].payment = ExpectedPayment(req[r].method)

----------------------------------------------------------------------------
(* C2 *)

\* C2: every order has 0 <= discount_amount <= total_amount.
C2_DiscountWithinSubtotal ==
    \A i \in DOMAIN orders :
        0 <= orders[i].discount_amount /\ orders[i].discount_amount <= orders[i].total_amount

----------------------------------------------------------------------------
(* C3 *)

RECURSIVE RefSubtotal(_)
RefSubtotal(items) ==
    IF items = <<>> THEN 0
    ELSE RefSubtotal(SubSeq(items, 1, Len(items) - 1))
         + items[Len(items)].price * items[Len(items)].quantity

\* the reference evaluator of the specification, on the coupon collection cps
RefDiscount(subtotal, code, cps) ==
    IF code = NULL \/ code \notin DOMAIN cps THEN 0
    ELSE IF ~cps[code].active THEN 0
    ELSE LET cap == IF cps[code].max_discount.kind = "number"
                    THEN cps[code].max_discount.value ELSE subtotal
         IN  IF cps[code].discount_type = "percent"
             THEN Min((subtotal * cps[code].value) \div 100, cap)
             ELSE Min(cps[code].value, cap)

\* C3: the pricing step of every checkout succeeds and computes the discount
\* of the reference evaluator (0 without an active coupon; min(subtotal *
\* value / 100, cap) for percent, min(value, cap) for flat; cap is
\* max_discount, or the subtotal when max_discount is absent or null).
C3_DiscountIsReference ==
    [][\A r \in Reqs :
        (req[r].pc = "co_price" /\ req'[r] # req[r]) =>
            /\ req'[r].pc = "co_order"
            /\ req'[r].discount =
                    RefDiscount(RefSubtotal(req[r].items), req[r].coupon_code, coupons)]_vars

----------------------------------------------------------------------------
(* C4 *)

\* C4: a checkout for a user without a cart, or with a cart without items,
\* never passes validation, and the step that returns the empty-cart error
\* changes no cart, no order and no notification.
C4_EmptyCheckoutFails ==
    [][/\ \A r \in Reqs :
            (req[r].pc = "idle" /\ req'[r].pc = "co_price") =>
                ItemsOf(carts, req'[r].user) # <<>>
       /\ (resp'.op = "checkout" /\ resp'.status = 400) =>
            /\ ItemsOf(carts, resp'.user) = <<>>
            /\ carts' = carts /\ orders' = orders /\ notifications' = notifications
      ]_vars

\* a checkout has failed on a cart that exists, is empty and carries a coupon
C4_Witness ==
    /\ resp.op = "checkout" /\ resp.status = 400 /\ resp.detail = "Cart is empty"
    /\ HasCart(carts, resp.user)
    /\ CodeOf(carts, resp.user) # NULL

----------------------------------------------------------------------------
(* C5 *)

\* C5 as stated: whenever a checkout returns success, the user's cart exists
\* with items = [] and coupon_code = null, whatever requests interleave.
C5_CartClearedAtReturn ==
    (resp.op = "checkout" /\ resp.status = 200) => Cleared(carts, resp.user)

\* a cart write of another request of user u lands in this step
CartWriteLands(u) ==
    \E w \in Reqs :
        /\ req[w].user = u
        /\ req[w].pc \in {"add_write", "rm_write", "ac_write"}
        /\ req'[w].pc = "idle"

\* C5, amended: the clear-cart write of a checkout leaves the user's cart in
\* place with items = [] and coupon_code = null; from there to the return of
\* the call the cart stays so in every step in which no add_item, remove_item
\* or apply_coupon write of the same user lands; and the cart document exists
\* when the call returns success.
C5_ClearedUnlessOverwritten ==
    [][/\ \A r \in Reqs :
            /\ (req[r].pc = "co_clear" /\ req'[r].pc = "co_notify") =>
                    Cleared(carts', req[r].user)
            /\ (req[r].pc = "co_notify" /\ Cleared(carts, req[r].user)
                    /\ ~CartWriteLands(req[r].user)) =>
                    Cleared(carts', req[r].user)
       /\ (resp'.op = "checkout" /\ resp'.status = 200) => HasCart(carts', resp'.user)
      ]_vars

\* a checkout has returned success on a cleared cart while another request of
\* the same user is in flight
C5_Witness ==
    /\ resp.op = "checkout" /\ resp.status = 200
    /\ Cleared(carts, resp.user)
    /\ \E w \in Reqs : req[w].pc # "idle" /\ req[w].user = resp.user

----------------------------------------------------------------------------
(* C6 *)

UniqueProducts(items) ==
    \A i, j \in DOMAIN items : i # j => items[i].product_id # items[j].product_id

\* C6: no cart ever holds two items with the same product_id; and when
\* add_item(u, p, q) returns success the cart holds exactly one item for p,
\* its quantity is q, and every other item of the cart as it was before is
\* unchanged and at its previous position.
C6_SetQuantity ==
    [][/\ \A i \in DOMAIN carts' : UniqueProducts(carts'[i].items)
       /\ (resp'.op = "add_to_cart" /\ resp'.status = 200) =>
            LET old == ItemsOf(carts, resp'.user)
                new == ItemsOf(carts', resp'.user)
                p == resp'.product
            IN  /\ Cardinality({i \in DOMAIN new : new[i].product_id = p}) = 1
                /\ \A i \in DOMAIN new :
                        new[i].product_id = p => new[i].quantity = resp'.quantity
                /\ \A i \in DOMAIN old :
                        old[i].product_id # p => (i \in DOMAIN new /\ new[i] = old[i])
                /\ Len(new) = Len(old)
                    + (IF \E i \in DOMAIN old : old[i].product_id = p THEN 0 ELSE 1)
      ]_vars

\* add_item has returned after setting a new quantity on the first of two items
C6_Witness ==
    /\ resp.op = "add_to_cart" /\ resp.status = 200
    /\ Len(resp.read) = 2
    /\ resp.read[1].product_id = resp.product
    /\ resp.read[1].quantity = 1 /\ resp.quantity = 2
    /\ ItemsOf(carts, resp.user)[1].quantity = 2

----------------------------------------------------------------------------
(* C7 *)

\* C7: whenever apply_coupon(u, c) returns success, u's cart exists and its
\* coupon_code is c.
C7_CouponStored ==
    (resp.op = "apply_coupon" /\ resp.status = 200) =>
        (HasCart(carts, resp.user) /\ CodeOf(carts, resp.user) = resp.code)

----------------------------------------------------------------------------
(* C8 *)

\* C8: apply_coupon goes on to its write only with a code that an active
\* coupon carries; with any other code it returns the not-found error, and
\* that step changes no cart.
C8_InvalidCouponRejected ==
    [][/\ \A r \in Reqs :
            (req[r].pc = "idle" /\ req'[r].pc = "ac_write") =>
                \E c \in DOMAIN coupons : c = req'[r].code /\ coupons[c].active
       /\ (resp'.op = "apply_coupon" /\ resp'.status = 404) =>
            /\ ~(\E c \in DOMAIN coupons : c = resp'.code /\ coupons[c].active)
            /\ carts' = carts
      ]_vars

\* apply_coupon has failed with the code of a deactivated coupon on a cart
\* that holds items
C8_Witness ==
    /\ resp.op = "apply_coupon" /\ resp.status = 404 /\ resp.detail = "Invalid coupon"
    /\ resp.code \in DOMAIN coupons
    /\ ItemsOf(carts, resp.user) # <<>>

----------------------------------------------------------------------------
(* C9 *)

\* C9: track(order.tracking_code) returns that order, for every order.
C9_TrackingRoundTrip ==
    \A i \in DOMAIN orders : track_order(orders[i].tracking_code) = i

----------------------------------------------------------------------------
(* C10 *)

\* C10: the store holds at most one cart document per user_id.
C10_OneCartPerUser ==
    \A i, j \in DOMAIN carts : i # j => carts[i].user_id # carts[j].user_id

----------------------------------------------------------------------------
(* C11 *)

\* C11: the notification step of a checkout always answers with success and
\* the order id, also when the notification write fails, and leaves the
\* order persisted and the cart as the clear-cart write left it; a checkout
\* answers with an error only for an empty or absent cart.
C11_NotifyBestEffort ==
    [][/\ \A r \in Reqs :
            (req[r].pc = "co_notify" /\ req'[r].pc = "idle" /\ resp'.op = "checkout") =>
                /\ resp'.status = 200
                /\ resp'.order_id = req[r].oid
                /\ orders' = orders
                /\ carts' = carts
       /\ (resp'.op = "checkout" /\ resp'.status # 200) => resp'.detail = "Cart is empty"
      ]_vars

----------------------------------------------------------------------------
(* C12 *)

\* C12: every item stored in a cart and every item copied into an order has
\* quantity >= 1 and price >= 0, and every order has total_amount >= 0.
C12_ItemsWellFormed ==
    /\ \A i \in DOMAIN carts : \A k \in DOMAIN carts[i].items :
            carts[i].items[k].quantity >= 1 /\ carts[i].items[k].price >= 0
    /\ \A i \in DOMAIN orders :
            /\ \A k \in DOMAIN orders[i].items :
                    orders[i].items[k].quantity >= 1 /\ orders[i].items[k].price >= 0
            /\ orders[i].total_amount >= 0

----------------------------------------------------------------------------
(* C13 *)

\* C13: a cart item carries the price and title its product had in the
\* catalog when the call that first added it read the product; a later
\* add_item for the same product changes the quantity only; a change of the
\* catalog price changes no cart and no order; the subtotal a checkout
\* computes, and the total_amount of its order, is the sum of stored price x
\* quantity over the items of the cart at checkout time.
C13_PriceSnapshot ==
    [][/\ \A r \in Reqs :
            /\ (req[r].pc = "idle" /\ req'[r].pc = "add_find_cart") =>
                    /\ req'[r].prod.price = products[req'[r].product].price
                    /\ req'[r].prod.title = products[req'[r].product].title
            /\ (req[r].pc = "add_write" /\ req'[r].pc = "idle") =>
                    LET old == ItemsOf(carts, req[r].user)
                        new == ItemsOf(carts', req[r].user)
                    IN  /\ \A k \in DOMAIN old :
                                /\ k \in DOMAIN new
                                /\ new[k].product_id = old[k].product_id
                                /\ new[k].price = old[k].price
                                /\ new[k].title = old[k].title
                        /\ \A k \in DOMAIN new :
                                k \notin DOMAIN old =>
                                    /\ new[k].product_id = req[r].product
                                    /\ new[k].price = req[r].prod.price
                                    /\ new[k].title = req[r].prod.title
            /\ (req[r].pc = "co_price" /\ req'[r].pc = "co_order") =>
                    req'[r].subtotal = RefSubtotal(req[r].items)
            /\ (req[r].pc = "idle" /\ req'[r].pc = "co_price") =>
                    req'[r].items = ItemsOf(carts, req'[r].user)
       /\ products' # products => (carts' = carts /\ orders' = orders)
       /\ \A i \in DOMAIN orders' : orders'[i].total_amount = RefSubtotal(orders'[i].items)
      ]_vars

\* add_item has set a new quantity on an item of p1 whose stored price is no
\* longer the catalog price, and the stored price is the old one
C13_Witness ==
    /\ resp.op = "add_to_cart" /\ resp.status = 200 /\ resp.product = "p1"
    /\ \E k \in DOMAIN resp.read :
            /\ resp.read[k].product_id = "p1"
            /\ resp.read[k].quantity # resp.quantity
            /\ resp.read[k].price # products["p1"].price
            /\ ItemsOf(carts, resp.user)[k].price = resp.read[k].price
            /\ ItemsOf(carts, resp.user)[k].quantity = resp.quantity

----------------------------------------------------------------------------
(* C14 *)

\* the larger of 0 and total - discount
FlooredDifference(total, discount) == IF total - discount > 0 THEN total - discount ELSE 0

\* C14: every priced checkout and every order has final_amount = max(0,
\* total_amount - discount_amount), and final_amount >= 0.
C14_FinalAmount ==
    /\ \A r \in Reqs :
            Priced(r) =>
                /\ req[r].final_amount = FlooredDifference(req[r].subtotal, req[r].discount)
                /\ req[r].final_amount >= 0
    /\ \A i \in DOMAIN orders :
            /\ orders[i].final_amount =
                    FlooredDifference(orders[i].total_amount, orders[i].discount_amount)
            /\ orders[i].final_amount >= 0

\* an order whose discount exceeds its positive total has final_amount 0
C14_Witness ==
    \E i \in DOMAIN orders :
        /\ orders[i].discount_amount > orders[i].total_amount
        /\ orders[i].total_amount > 0
        /\ orders[i].final_amount = 0

----------------------------------------------------------------------------
(* C15 *)

\* the items of a list without those of product p, in their order
RECURSIVE Without(_, _)
Without(items, p) ==
    IF items = <<>> THEN <<>>
    ELSE IF items[1].product_id = p THEN Without(Tail(items), p)
         ELSE <<items[1]>> \o Without(Tail(items), p)

\* C15: the last writer wins on the whole items field. The write of an
\* add_item leaves the cart with the items that call had read, with the
\* product's quantity set or the product appended, and the write of a
\* remove_item leaves the items that call had read without the product,
\* whatever the store holds at the moment of the write; both return ok.
C15_LastWriterWins ==
    [][\A r \in Reqs :
        /\ (req[r].pc = "add_write" /\ req'[r].pc = "idle") =>
                LET read == req[r].items
                    new == ItemsOf(carts', req[r].user)
                    p == req[r].product
                IN  /\ resp'.op = "add_to_cart" /\ resp'.status = 200
                    /\ Without(new, p) = Without(read, p)
                    /\ Cardinality({k \in DOMAIN new : new[k].product_id = p}) = 1
                    /\ \A k \in DOMAIN new :
                            new[k].product_id = p => new[k].quantity = req[r].quantity
                    /\ \A k \in DOMAIN read : new[k].product_id = read[k].product_id
        /\ (req[r].pc = "rm_write" /\ req'[r].pc = "idle") =>
                /\ resp'.op = "remove_from_cart" /\ resp'.status = 200
                /\ ItemsOf(carts', req[r].user) = Without(req[r].items, req[r].product)
      ]_vars

\* an add_item that read the cart before a checkout cleared it has written
\* after the clear: the checkout is still in flight, its order holds the
\* items the add_item had read, and these items are back in the cart
C15_Witness ==
    /\ resp.op = "add_to_cart" /\ resp.status = 200
    /\ resp.read # <<>>
    /\ resp.before = <<>>
    /\ \E r \in Reqs :
            /\ req[r].pc = "co_notify" /\ req[r].user = resp.user
            /\ orders[req[r].oid].items = resp.read
    /\ Len(ItemsOf(carts, resp.user)) = Len(resp.read) + 1
    /\ \A k \in DOMAIN resp.read : ItemsOf(carts, resp.user)[k] = resp.read[k]

\* two add_item calls on different products have both returned ok and the
\* cart holds the product of the later write only
C15_LostAdd ==
    /\ resp.op = "add_to_cart" /\ resp.status = 200
    /\ resp.read = <<>>
    /\ Len(resp.before) = 1
    /\ resp.before[1].product_id # resp.product
    /\ Len(ItemsOf(carts, resp.user)) = 1
    /\ ItemsOf(carts, resp.user)[1].product_id = resp.product

\* an add_item and a remove_item on different products have both returned
\* ok and the item added in between is gone from the cart
C15_LostAddByRemove ==
    /\ resp.op = "remove_from_cart" /\ resp.status = 200
    /\ \E k \in DOMAIN resp.before :
            /\ resp.before[k].product_id # resp.product
            /\ \A j \in DOMAIN resp.read : resp.read[j].product_id # resp.before[k].product_id
            /\ \A j \in DOMAIN ItemsOf(carts, resp.user) :
                    ItemsOf(carts, resp.user)[j].product_id # resp.before[k].product_id

----------------------------------------------------------------------------
(* C16 *)

\* C16: checkout validates on the cart's items alone, persists its order in
\* a step that leaves the cart as it is, and clears the cart in a later
\* step; a checkout that stops between the two leaves the order persisted
\* and the cart uncleared.
C16_OrderBeforeClear ==
    [][\A r \in Reqs :
        /\ (req[r].pc = "idle" /\ req'[r].pc = "co_price") =>
                /\ req'[r].items = ItemsOf(carts, req'[r].user)
                /\ req'[r].items # <<>>
        /\ (req[r].pc = "co_order" /\ req'[r].pc = "co_clear") =>
                /\ Len(orders') = Len(orders) + 1
                /\ orders'[Len(orders')].user_id = req[r].user
                /\ orders'[Len(orders')].items = req[r].items
                /\ carts' = carts
        /\ (req[r].pc = "co_clear" /\ req'[r].pc = "co_notify") =>
                /\ orders' = orders
                /\ ItemsOf(carts', req[r].user) = <<>>
        /\ (req[r].pc = "co_clear" /\ req'[r].pc = "idle") =>
                /\ orders' = orders
                /\ carts' = carts
      ]_vars

\* two checkouts of one user have both passed validation and both persisted
\* an order with the same items before either cleared the cart
C16_Witness ==
    /\ Len(orders) = 2
    /\ orders[1].user_id = orders[2].user_id
    /\ orders[1].items = orders[2].items
    /\ \A r \in Reqs : req[r].pc = "co_clear" /\ req[r].user = orders[1].user_id
    /\ ItemsOf(carts, orders[1].user_id) = orders[1].items

\* under SpecStop (one worker, a checkout stops only before its clear): a
\* checkout has stopped after persisting its order, the cart was never
\* cleared (no notification exists and no checkout is between its clear and
\* its notification), and a later checkout has persisted a second order
\* with the same items
C16_AfterStop ==
    /\ Len(orders) = 2
    /\ orders[1].user_id = orders[2].user_id
    /\ orders[1].items = orders[2].items
    /\ notifications = <<>>
    /\ \E r \in Reqs :
            /\ req[r].pc = "co_clear" /\ req[r].oid = 2
            /\ \A w \in Reqs \ {r} : req[w].pc = "idle"
    /\ ItemsOf(carts, orders[1].user_id) = orders[1].items

----------------------------------------------------------------------------
(* C17 *)

\* the position of a pc in the pipeline of a checkout
PipelineRank(pc) ==
    CASE pc = "co_price" -> 1
      [] pc = "co_order" -> 2
      [] pc = "co_clear" -> 3
      [] pc = "co_notify" -> 4
      [] OTHER -> 0

\* C17: the steps of a checkout happen in the order validate, price, persist
\* order, clear cart, write notification, one position at a time, also when
\* calls stop between two steps: a checkout writes to the carts only in its
\* clear step, and then its order is persisted; it writes to the orders only
\* in its persist step; a notification is written only by a checkout past
\* its clear step, and names a persisted order of the same user.
C17_PipelineOrder ==
    [][/\ \A r \in Reqs :
            /\ (req'[r].pc # req[r].pc /\ PipelineRank(req'[r].pc) > 0) =>
                    /\ PipelineRank(req'[r].pc) = PipelineRank(req[r].pc) + 1
                    /\ (req'[r].pc = "co_price") = (req[r].pc = "idle")
            /\ (req[r].op = "checkout" /\ req'[r] # req[r] /\ carts' # carts) =>
                    /\ req[r].pc = "co_clear" /\ req'[r].pc = "co_notify"
                    /\ req[r].oid \in DOMAIN orders
                    /\ orders[req[r].oid].user_id = req[r].user
                    /\ orders[req[r].oid].items = req[r].items
                    /\ orders' = orders
            /\ (req[r].op = "checkout" /\ req'[r] # req[r] /\ orders' # orders) =>
                    /\ req[r].pc = "co_order" /\ req'[r].pc = "co_clear"
                    /\ carts' = carts
            /\ (req'[r].pc = "co_notify") =>
                    /\ req'[r].oid \in DOMAIN orders'
                    /\ orders'[req'[r].oid].user_id = req'[r].user
       /\ notifications' # notifications =>
            /\ \E r \in Reqs :
                    /\ req[r].pc = "co_notify" /\ req'[r].pc = "idle"
                    /\ notifications' =
                            Append(notifications, notifications'[Len(notifications')])
                    /\ notifications'[Len(notifications')].order_id = req[r].oid
                    /\ notifications'[Len(notifications')].user_id = req[r].user
            /\ carts' = carts /\ orders' = orders
       /\ \A i \in DOMAIN notifications' :
            /\ notifications'[i].order_id \in DOMAIN orders'
            /\ orders'[notifications'[i].order_id].user_id = notifications'[i].user_id
      ]_vars

\* one checkout has completed (order 1 with its notification) and another
\* has stopped after persisting order 2: order 2 is persisted, no
\* notification names it, the cart is cleared, no request is in flight and
\* the last step sent no response
C17_Witness ==
    /\ Len(orders) = 2
    /\ Len(notifications) = 1 /\ notifications[1].order_id = 1
    /\ Cleared(carts, orders[2].user_id)
    /\ \A r \in Reqs : req[r].pc = "idle"
    /\ resp = NoResp
    /\ \A c \in DOMAIN coupons : coupons[c].active

----------------------------------------------------------------------------
(* C18 *)

\* C18: remove_item(u, p) always returns success; it changes no order, no
\* notification, no coupon and no cart of another user, creates no cart, and
\* leaves u's coupon_code as it is; when u has no cart nothing changes;
\* otherwise, for a call whose read of the cart is still current, the items
\* afterwards are the items before without those of product p, in the same
\* order.
C18_RemoveNarrow ==
    [][/\ \A r \in Reqs :
            (req[r].op = "remove_from_cart" /\ req'[r] # req[r]) =>
                resp'.op = "remove_from_cart"
       /\ resp'.op = "remove_from_cart" =>
            LET u == resp'.user
            IN  /\ resp'.status = 200
                /\ orders' = orders /\ notifications' = notifications
                /\ coupons' = coupons /\ products' = products
                /\ Len(carts') = Len(carts)
                /\ \A i \in DOMAIN carts : carts[i].user_id # u => carts'[i] = carts[i]
                /\ CodeOf(carts', u) = CodeOf(carts, u)
                /\ ~HasCart(carts, u) => carts' = carts
                /\ (HasCart(carts, u) /\ resp'.read = ItemsOf(carts, u)) =>
                        ItemsOf(carts', u) = Without(ItemsOf(carts, u), resp'.product)
      ]_vars

\* remove_item has taken the first of two items out of a cart that carries a
\* coupon, while the other user has a cart with items
C18_Witness ==
    /\ resp.op = "remove_from_cart" /\ resp.status = 200
    /\ Len(resp.read) = 2 /\ resp.read[1].product_id = resp.product
    /\ ItemsOf(carts, resp.user) = <<resp.read[2]>>
    /\ CodeOf(carts, resp.user) # NULL
    /\ \E v \in Users \ {resp.user} : ItemsOf(carts, v) # <<>>

----------------------------------------------------------------------------
(* C19 *)

\* C19: an order is created by the persist step of a checkout, with the
\* items that checkout read from the cart and status placed; no step of any
\* call changes or removes an existing order.
C19_OrderFrozen ==
    [][/\ \A i \in DOMAIN orders : i \in DOMAIN orders' /\ orders'[i] = orders[i]
       /\ Len(orders') # Len(orders) =>
            /\ Len(orders') = Len(orders) + 1
            /\ \E r \in Reqs :
                    /\ req[r].pc = "co_order" /\ req'[r].pc = "co_clear"
                    /\ orders'[Len(orders')].user_id = req[r].user
                    /\ orders'[Len(orders')].items = req[r].items
                    /\ orders'[Len(orders')].status = "placed"
       /\ \A r \in Reqs :
            (req[r].pc = "idle" /\ req'[r].pc = "co_price") =>
                req'[r].items = ItemsOf(carts, req'[r].user)
      ]_vars

\* two users have an order each, and the user of the first order has put
\* items into the cart again since: the first order still holds its items
C19_Witness ==
    /\ Len(orders) = 2
    /\ orders[1].user_id # orders[2].user_id
    /\ orders[1].items # <<>> /\ orders[1].status = "placed"
    /\ ItemsOf(carts, orders[1].user_id) # <<>>
    /\ resp.op = "add_to_cart" /\ resp.status = 200 /\ resp.user = orders[1].user_id

====
